---- MODULE Spec2Model ----
(***************************************************************************)
(* hayai-playout-core: the Streamer facade, its playlist store, the        *)
(* switch controller (play_next / switch_source), the bus listener thread  *)
(* and the asynchronous teardown of finished sources.                      *)
(*                                                                         *)
(* Option<T> is a sequence of length at most one: None is <<>>, Some(x)    *)
(* is <<x>>.  Vec indices are 0-based as in the source; playlist[i + 1]    *)
(* is the element at Vec index i.                                          *)
(***************************************************************************)
EXTENDS Integers, Sequences, FiniteSets, TLC

\* Largest number of messages waiting on the pipeline's bus.
MaxBus == 1
\* Number of times a pad of a source sees the end of its stream in one run.
MaxEos == 2
\* Number of calls the application makes to the Streamer in one run.
MaxCalls == 3
\* Number of calls the application makes in the session on [A, B, C].
MaxCallsABC == 2
\* Number of calls the application makes in the session on [A, B].
MaxCallsAB == 2
\* Number of calls the application makes in the sessions whose listener is
\* followed to its end.
MaxCallsLive == 2
\* Number of ids NEXT_ID issues when the playlist store is exercised alone.
MaxId == 3

\* The uris callers pass to add_item.
Uris == {"A", "B"}
\* The uris callers pass to add_item around a session: the session hands an
\* item's uri to its source element and never reads it.
SessionUris == {"A"}
\* The elementary streams of a source: the pad-added callback routes video/
\* pads to the video selector and audio/ pads to the audio selector.
Kinds == {"video", "audio"}
\* The streams one source exposes (discovered while it decodes).
PadSets == SUBSET Kinds \ {{}}

None == <<>>
Some(x) == <<x>>

VARIABLES
    playlist,               \* Streamer.playlist: Vec<PlaylistItem>
    NEXT_ID,                \* static NEXT_ID: AtomicU64
    currently_playing_id,   \* Streamer.currently_playing_id: Option<u64>
    pipeline,               \* Streamer.pipeline: None, or Some of the graph
    graph,                  \* the gst::Pipeline object: "none", "playing", "stopped"
    children,               \* source elements in the graph, by the id in their name:
                            \*   id |-> its pads that have yet to see EOS
    cleanup,                \* ids of the sources with a call_async teardown pending
    bus,                    \* the messages on the pipeline's bus, oldest first
    listener,               \* the bus listener thread: [pc, msg, old, snap]
    last,                   \* the operation that produced this state, and its result
    trail,                  \* the advances since the session left Idle
    calls,                  \* the calls made to the Streamer so far
    eos,                    \* the ends of stream seen on pads so far
    moving,                 \* the move_item between Vec::remove and Vec::insert
    snapshot,               \* what the last get_playlist_clone returned
    issued,                 \* the ids add_item has returned so far
    threads                 \* per thread: the operation it runs, the statements on
                            \*   guards it has yet to run, the guards it holds,
                            \*   oldest first

\* The ids callers pass to remove_item and move_item: every id issued so
\* far and one that never was.
Ids == 1..NEXT_ID
\* The indices callers pass to move_item: every valid one and two beyond.
Indices == 0..(Len(playlist) + 1)

vars == <<playlist, NEXT_ID, currently_playing_id, pipeline, graph, children,
          cleanup, bus, listener, last, trail, calls, eos, moving, snapshot,
          issued, threads>>

-----------------------------------------------------------------------------
(* Playlist store: pure Vec operations                                      *)

PlaylistItem(id, uri) == [id |-> id, uri |-> uri]

ids_of(pl) == {pl[i].id : i \in 1..Len(pl)}

\* Vec::push
push(pl, item) == Append(pl, item)

\* iter().position(|item| item.id == id): the first matching index, or None
position(pl, id) ==
    IF \E i \in 1..Len(pl) : pl[i].id = id
    THEN Some((CHOOSE i \in 1..Len(pl) :
                  /\ pl[i].id = id
                  /\ \A j \in 1..(i - 1) : pl[j].id # id) - 1)
    ELSE None

\* Vec::swap_remove at the position of id: the last element takes its place.
swap_remove(pl, id) ==
    LET index == position(pl, id) IN
    IF index = None THEN pl
    ELSE [i \in 1..(Len(pl) - 1) |->
             IF i = index[1] + 1 THEN pl[Len(pl)] ELSE pl[i]]

\* Vec::retain(|item| item.id != id)
retain(pl, id) == SelectSeq(pl, LAMBDA item : item.id # id)

\* Vec::remove(index): the Vec without the element at index
vec_remove(pl, index) ==
    [i \in 1..(Len(pl) - 1) |-> IF i <= index THEN pl[i] ELSE pl[i + 1]]

\* Vec::insert(index, item): item at index, later elements shifted right
vec_insert(pl, index, item) ==
    [i \in 1..(Len(pl) + 1) |->
        IF i <= index THEN pl[i]
        ELSE IF i = index + 1 THEN item
        ELSE pl[i - 1]]

\* move_item that looks the id up first and takes an index past the end
\* to mean the last position.
move_item_clamp(pl, id, new_index) ==
    LET old_index == position(pl, id) IN
    IF old_index = None
    THEN [res |-> "ItemNotFound", pl |-> pl]
    ELSE LET item == pl[old_index[1] + 1]
             index == IF new_index >= Len(pl) THEN Len(pl) - 1 ELSE new_index
         IN  [res |-> "Ok",
              pl  |-> vec_insert(vec_remove(pl, old_index[1]), index, item)]

\* move_item that looks the id up before it checks the index.
move_item_lookup_first(pl, id, new_index) ==
    LET old_index == position(pl, id) IN
    IF old_index = None
    THEN [res |-> "ItemNotFound", pl |-> pl]
    ELSE IF new_index >= Len(pl)
    THEN [res |-> "InvalidIndex", pl |-> pl]
    ELSE LET item == pl[old_index[1] + 1] IN
         [res |-> "Ok",
          pl  |-> vec_insert(vec_remove(pl, old_index[1]), new_index, item)]

\* move_item that exchanges the items at the two indices (Vec::swap).
move_item_swap(pl, id, new_index) ==
    IF new_index >= Len(pl)
    THEN [res |-> "InvalidIndex", pl |-> pl]
    ELSE LET old_index == position(pl, id) IN
         IF old_index = None
         THEN [res |-> "ItemNotFound", pl |-> pl]
         ELSE [res |-> "Ok",
               pl  |-> [pl EXCEPT ![old_index[1] + 1] = pl[new_index + 1],
                                  ![new_index + 1] = pl[old_index[1] + 1]]]

\* move_item that writes the item over the one at new_index and keeps the
\* one at its old position.
move_item_copy(pl, id, new_index) ==
    IF new_index >= Len(pl)
    THEN [res |-> "InvalidIndex", pl |-> pl]
    ELSE LET old_index == position(pl, id) IN
         IF old_index = None
         THEN [res |-> "ItemNotFound", pl |-> pl]
         ELSE [res |-> "Ok",
               pl  |-> [pl EXCEPT ![new_index + 1] = pl[old_index[1] + 1]]]

\* The body of move_item on a locked playlist: its result and the new Vec.
move_item_body(pl, id, new_index) ==
    IF new_index >= Len(pl)
    THEN [res |-> "InvalidIndex", pl |-> pl]
    ELSE LET old_index == position(pl, id) IN
         IF old_index = None
         THEN [res |-> "ItemNotFound", pl |-> pl]
         ELSE LET item == pl[old_index[1] + 1] IN
              [res |-> "Ok",
               pl  |-> vec_insert(vec_remove(pl, old_index[1]), new_index, item)]

\* add_item that numbers the new item by its place in the playlist.
add_item_by_length(pl, next, uri) ==
    [id |-> Len(pl) + 1, next |-> next + 1,
     pl |-> push(pl, PlaylistItem(Len(pl) + 1, uri))]

\* The body of add_item: fetch_add on NEXT_ID, then push.
add_item_body(pl, next, uri) ==
    [id |-> next, next |-> next + 1, pl |-> push(pl, PlaylistItem(next, uri))]

-----------------------------------------------------------------------------
(* Switch controller: play_next and switch_source                           *)

\* What the media engine does to one attach: every call succeeds, or
\* ElementFactory::make fails, or sync_state_with_parent fails.
AttachFaults == {"none", "build", "sync"}

NoChildren == [id \in {} |-> {}]

\* The messages the listener tells apart: the hayai-playlist-eos application
\* message with the id in its source-name, an error, the pipeline's EOS.
Application(id) == [type |-> "Application", src |-> id]
ErrorMsg == [type |-> "Error", src |-> 0]
EosMsg == [type |-> "Eos", src |-> 0]

\* pipeline.by_name("source_elem_<id>")
by_name(ch, id) == IF id \in DOMAIN ch THEN Some(id) ELSE None

\* next_index that, with no current item, begins at the end of the
\* playlist.
next_index_from_end(pl, playing_id) ==
    IF playing_id = None
    THEN Len(pl) - 1
    ELSE LET current_index == position(pl, playing_id[1]) IN
         IF current_index = None
         THEN 0
         ELSE (current_index[1] + 1) % Len(pl)

\* play_next, lines 258-263: the 0-based index of the item to play next.
next_index(pl, playing_id) ==
    IF playing_id = None
    THEN 0
    ELSE LET current_index == position(pl, playing_id[1]) IN
         IF current_index = None
         THEN 0
         ELSE (current_index[1] + 1) % Len(pl)

\* One statement of an advance, with the locks the advancing thread holds
\* while it runs.
Step(op, held) == [op |-> op, held |-> held]

\* The statements of switch_source that run before it returns, in order.
\* The caller holds the locks in held throughout.
switch_steps(res, old_source, held) ==
    LET make     == <<Step("ElementFactory::make", held)>>
        add      == <<Step("pipeline.add", held)>>
        connect  == <<Step("connect_pad_added", held)>>
        schedule == IF old_source = None THEN <<>>
                    ELSE <<Step("call_async", held)>>
        sync     == <<Step("sync_state_with_parent", held)>>
    IN  IF res = "BuildFailed" THEN make
        ELSE IF res = "DuplicateName" THEN make \o add
        ELSE make \o add \o connect \o schedule \o sync

\* The pad-added callback of a started source, once per pad in pads: the
\* pad is linked to its selector, made the selector's active-pad and given
\* its EOS probe.  It runs on the source's streaming thread, which holds
\* neither lock; video is taken before audio.
pad_added_steps(pads) ==
    LET of(kind) == IF kind \in pads
                    THEN <<Step("pad.link", {}), Step("active-pad", {}),
                           Step("add_probe", {})>>
                    ELSE <<>>
    IN  of("video") \o of("audio")

\* switch_source that tears the old source down itself, before it returns.
switch_source_teardown_inline(ch, cl, item, old_source, fault, pads) ==
    IF fault = "build"
    THEN [res |-> "BuildFailed", children |-> ch, cleanup |-> cl]
    ELSE IF item.id \in DOMAIN ch
    THEN [res |-> "DuplicateName", children |-> ch, cleanup |-> cl]
    ELSE LET started == IF fault = "sync" THEN {} ELSE pads
             kept == IF old_source = None THEN DOMAIN ch
                     ELSE DOMAIN ch \ {old_source[1]}
         IN  [res      |-> IF fault = "sync" THEN "SyncFailed" ELSE "Ok",
              children |-> [id \in kept \cup {item.id} |->
                              IF id = item.id
                              THEN started
                              ELSE ch[id]],
              cleanup  |-> cl]

\* switch_source on a graph with children ch and pending teardowns cl.
\* Bin::add refuses an element whose name a child of the bin already bears;
\* the teardown of old_source is scheduled after the add and before the sync.
switch_source(ch, cl, item, old_source, fault, pads) ==
    IF fault = "build"
    THEN [res |-> "BuildFailed", children |-> ch, cleanup |-> cl]
    ELSE IF item.id \in DOMAIN ch
    THEN [res |-> "DuplicateName", children |-> ch, cleanup |-> cl]
    ELSE LET started == IF fault = "sync" THEN {} ELSE pads IN
         [res      |-> IF fault = "sync" THEN "SyncFailed" ELSE "Ok",
          children |-> [id \in DOMAIN ch \cup {item.id} |->
                          IF id = item.id
                          THEN started
                          ELSE ch[id]],
          cleanup  |-> IF old_source = None THEN cl ELSE cl \cup {old_source[1]}]

\* The statements of play_next that run before it returns, in order, given
\* the result res of the advance: both locks are taken, the playlist guard
\* is dropped before switch_source, the current-id guard when play_next
\* returns.
play_next_steps(res, element_to_remove) ==
    LET locks == <<Step("lock playlist", {}),
                   Step("lock playing_id", {"playlist"})>>
        both  == {"playlist", "playing_id"}
    IN  IF res = "EmptyPlaylist"
        THEN locks \o <<Step("is_empty", both)>>
        ELSE locks
             \o <<Step("is_empty", both), Step("next_index", both),
                  Step("drop playlist", both)>>
             \o switch_steps(res, element_to_remove, {"playing_id"})
             \o (IF res = "Ok"
                 THEN <<Step("set playing_id", {"playing_id"})>>
                 ELSE <<>>)

\* play_next that makes the chosen item current before it attaches it.
play_next_sets_first(pl, playing_id, ch, cl, element_to_remove, fault, pads) ==
    IF pl = <<>>
    THEN [res |-> "EmptyPlaylist", playing_id |-> playing_id, chosen |-> 0,
          children |-> ch, cleanup |-> cl,
          steps |-> play_next_steps("EmptyPlaylist", element_to_remove)]
    ELSE LET next_item == pl[next_index(pl, playing_id) + 1]
             sw == switch_source(ch, cl, next_item, element_to_remove, fault, pads)
         IN  [res        |-> sw.res,
              playing_id |-> Some(next_item.id),
              chosen     |-> next_item.id,
              children   |-> sw.children,
              cleanup    |-> sw.cleanup,
              steps      |-> play_next_steps(sw.res, element_to_remove)]

\* play_next under both locks: the result, the new current id, the item
\* chosen (0 when none was) and the graph's new children and teardowns.
play_next(pl, playing_id, ch, cl, element_to_remove, fault, pads) ==
    IF pl = <<>>
    THEN [res |-> "EmptyPlaylist", playing_id |-> playing_id, chosen |-> 0,
          children |-> ch, cleanup |-> cl,
          steps |-> play_next_steps("EmptyPlaylist", element_to_remove)]
    ELSE LET next_item == pl[next_index(pl, playing_id) + 1]
             sw == switch_source(ch, cl, next_item, element_to_remove, fault, pads)
         IN  [res        |-> sw.res,
              playing_id |-> IF sw.res = "Ok" THEN Some(next_item.id) ELSE playing_id,
              chosen     |-> next_item.id,
              children   |-> sw.children,
              cleanup    |-> sw.cleanup,
              steps      |-> play_next_steps(sw.res, element_to_remove)]

-----------------------------------------------------------------------------
(* Bookkeeping that the properties read; the program does not.              *)

\* What an operation leaves in last: its name, its result and, for an
\* advance, the statements it ran.
Traced(op, res, steps) == [op |-> op, res |-> res, steps |-> steps]
Label(op, res) == Traced(op, res, <<>>)

\* The position of the first statement named op in a statement log, 0 when
\* there is none.
FirstStep(steps, op) ==
    IF \E i \in 1..Len(steps) : steps[i].op = op
    THEN CHOOSE i \in 1..Len(steps) :
            /\ steps[i].op = op
            /\ \A j \in 1..(i - 1) : steps[j].op # op
    ELSE 0

\* on: the advances so far began with no current item and met no fault of
\* the media engine and no playlist mutation; seq: the id each advance made
\* current (0 when it failed); fin: the sources that have signalled their end;
\* done: the attached sources that have signalled it.
TrailIdle == [on |-> TRUE, seq |-> <<>>, fin |-> 0, done |-> {}]
TrailOff  == [on |-> FALSE, seq |-> <<>>, fin |-> 0, done |-> {}]

\* trail after an advance r made on playlist pl with current id playing_id:
\* it follows advances that began with no current item, met no fault of the
\* media engine and no playlist mutation, up to one full round and a wrap.
TrailAdvance(tr, pl, playing_id, r) ==
    IF \/ ~tr.on
       \/ r.res \in {"EmptyPlaylist", "BuildFailed", "SyncFailed"}
       \/ (tr.seq = <<>> /\ playing_id # None)
       \/ Len(tr.seq) > Len(pl)
    THEN TrailOff
    ELSE IF r.res = "Ok"
    THEN [tr EXCEPT !.seq = Append(@, r.chosen), !.done = @ \ {r.chosen}]
    ELSE [tr EXCEPT !.seq = Append(@, 0)]

\* trail after a pad of source id signalled EOS: the first EOS of a source
\* is its finish; the round is followed for one wrap.
TrailFinish(tr, pl, id) ==
    IF ~tr.on \/ id \in tr.done THEN tr
    ELSE IF tr.fin >= Len(pl) THEN TrailOff
    ELSE [tr EXCEPT !.fin = @ + 1, !.done = @ \cup {id}]

\* trail after a playlist operation that left the playlist as new_pl.
TrailMutate(tr, pl, new_pl) ==
    IF new_pl # pl /\ tr.seq # <<>> THEN TrailOff ELSE tr

\* The graph object lives while a strong reference to it does: the
\* Streamer's field, the listener's upgraded handle, a teardown closure.
Referenced(pipe, lis, cl) ==
    pipe # None \/ lis.pc \in {"handle", "switch"} \/ cl # {}

-----------------------------------------------------------------------------
(* Streamer: the playlist operations                                        *)

\* One more call by the application.
Call ==
    calls < MaxCalls /\ calls' = calls + 1 /\ UNCHANGED <<eos, moving, snapshot, threads>>

add_item(uri) ==
    /\ LET r == add_item_body(playlist, NEXT_ID, uri) IN
        /\ playlist' = r.pl
        /\ NEXT_ID' = r.next
        /\ last' = Label("add_item", "Ok")
        /\ trail' = TrailMutate(trail, playlist, r.pl)
        /\ issued' = issued \cup {r.id}
    /\ UNCHANGED <<currently_playing_id, pipeline, graph, children, cleanup,
                   bus, listener>>

\* A remove_item that clears the current id when it removes the item that
\* is playing.
remove_item_resets_current(id) ==
    /\ playlist' = retain(playlist, id)
    /\ currently_playing_id' = IF currently_playing_id = Some(id)
                               THEN None ELSE currently_playing_id
    /\ last' = Label("remove_item", "Ok")
    /\ trail' = TrailMutate(trail, playlist, playlist')
    /\ UNCHANGED <<NEXT_ID, issued, pipeline, graph, children,
                   cleanup, bus, listener>>

remove_item(id) ==
    /\ playlist' = retain(playlist, id)
    /\ last' = Label("remove_item", "Ok")
    /\ trail' = TrailMutate(trail, playlist, playlist')
    /\ UNCHANGED <<NEXT_ID, issued, currently_playing_id, pipeline, graph, children,
                   cleanup, bus, listener>>

move_item(id, new_index) ==
    /\ LET r == move_item_body(playlist, id, new_index) IN
        /\ playlist' = r.pl
        /\ last' = Label("move_item", r.res)
        /\ trail' = TrailMutate(trail, playlist, r.pl)
    /\ UNCHANGED <<NEXT_ID, issued, currently_playing_id, pipeline, graph, children,
                   cleanup, bus, listener>>

\* The clone made under the playlist lock.
get_playlist_clone == playlist

\* The copy made under the current-id lock.
get_currently_playing_id == currently_playing_id

\* A playlist Mutex that lets a caller in while another holds its guard.
playlist_lock_ignored == TRUE

\* The playlist Mutex is free: no thread is inside an operation on the
\* Vec.  The guard of move_item lives from its first statement to its
\* return, across Vec::remove and Vec::insert.
playlist_lock_free == moving = None

\* move_item up to Vec::remove: the lock is taken, index and id are
\* checked, the item is taken out of the Vec.  A move that fails returns
\* here.
move_item_remove(id, new_index) ==
    /\ playlist_lock_free
    /\ LET r == move_item_body(playlist, id, new_index) IN
       IF r.res # "Ok"
       THEN /\ last' = Label("move_item", r.res)
            /\ UNCHANGED <<playlist, moving>>
       ELSE LET old_index == position(playlist, id) IN
            /\ playlist' = vec_remove(playlist, old_index[1])
            /\ moving' = Some([item |-> playlist[old_index[1] + 1],
                               new_index |-> new_index])
            /\ last' = Label("Vec::remove", "Ok")
    /\ UNCHANGED <<NEXT_ID, issued, currently_playing_id, pipeline, graph, children,
                   cleanup, bus, listener, trail, calls, eos, snapshot,
                   threads>>

\* The rest of move_item: Vec::insert, and the guard is dropped.
move_item_insert ==
    /\ moving # None
    /\ playlist' = vec_insert(playlist, moving[1].new_index, moving[1].item)
    /\ moving' = None
    /\ last' = Label("move_item", "Ok")
    /\ UNCHANGED <<NEXT_ID, issued, currently_playing_id, pipeline, graph, children,
                   cleanup, bus, listener, trail, calls, eos, snapshot,
                   threads>>

\* A call of get_playlist_clone: the lock is taken, the Vec is cloned.
call_get_playlist_clone ==
    /\ playlist_lock_free
    /\ snapshot' = get_playlist_clone
    /\ last' = Label("get_playlist_clone", "Ok")
    /\ UNCHANGED <<playlist, NEXT_ID, issued, currently_playing_id, pipeline, graph,
                   children, cleanup, bus, listener, trail, calls, eos, moving,
                   threads>>

-----------------------------------------------------------------------------
(* Streamer: the session                                                    *)

\* What the media engine does to one start: every call succeeds, or the
\* graph cannot be built, or the first attach fails (build, sync), or
\* set_state(Playing) fails.
StartFaults == {"none", "graph", "build", "sync", "playing"}

\* The listener thread: where it is in its loop (pc), the source named by
\* the message it handles (msg, 0 for none), the element by_name found for
\* that name (old) and the playlist as play_next read it under the lock
\* (snap).
Listener(pc, msg, old, snap) ==
    [pc |-> pc, msg |-> msg, old |-> old, snap |-> snap]
Polling == Listener("poll", 0, None, <<>>)
NoListener == Listener("none", 0, None, <<>>)

\* The graph after a step that may have dropped the last strong reference.
GraphAfter(pipe, lis, g, ch, cl, b) ==
    IF Referenced(pipe, lis, cl)
    THEN [graph |-> g, children |-> ch, cleanup |-> cl, bus |-> b]
    ELSE [graph |-> "none", children |-> NoChildren, cleanup |-> {}, bus |-> <<>>]

\* Streamer::start that, called while a session is running, refuses but
\* forgets the current item.
start_forgetful(fault, pads) ==
    /\ pipeline # None \/ graph = "none"
    /\ UNCHANGED <<playlist, NEXT_ID, issued>>
    /\ IF pipeline # None
       THEN /\ last' = Label("start", "AlreadyRunning")
            /\ currently_playing_id' = None
            /\ UNCHANGED <<pipeline, graph, children,
                           cleanup, bus, listener, trail>>
       ELSE IF fault = "graph"
       THEN /\ last' = Label("start", "GraphBuildError")
            /\ UNCHANGED <<currently_playing_id, pipeline, graph, children,
                           cleanup, bus, listener, trail>>
       ELSE LET r == play_next(playlist, currently_playing_id, NoChildren, {},
                               None, IF fault = "playing" THEN "none" ELSE fault,
                               pads)
                ok == r.res = "Ok" /\ fault = "none"
            IN  /\ listener' = Polling
                /\ currently_playing_id' = r.playing_id
                /\ pipeline' = IF ok THEN Some("pipeline") ELSE None
                /\ graph' = IF ok THEN "playing" ELSE "none"
                /\ children' = IF ok THEN r.children ELSE NoChildren
                /\ cleanup' = {}
                /\ bus' = <<>>
                /\ last' = Traced("start",
                                  IF r.res # "Ok" THEN "FirstItemFailed"
                                  ELSE IF fault = "playing" THEN "StateChangeFailed"
                                  ELSE "Ok",
                                  r.steps
                                  \o (IF r.res = "Ok"
                                      THEN <<Step("set_state(Playing)", {})>>
                                      ELSE <<>>)
                                  \o (IF ok THEN pad_added_steps(pads) ELSE <<>>))
                /\ trail' = IF fault = "none"
                            THEN TrailAdvance(trail, playlist, currently_playing_id, r)
                            ELSE TrailOff

\* Streamer::start that stores the pipeline in the Streamer before the
\* first advance and leaves it there when the advance fails.
start_keeps_session(fault, pads) ==
    /\ pipeline # None \/ graph = "none"
    /\ UNCHANGED <<playlist, NEXT_ID, issued>>
    /\ IF pipeline # None
       THEN /\ last' = Label("start", "AlreadyRunning")
            /\ UNCHANGED <<currently_playing_id, pipeline, graph, children,
                           cleanup, bus, listener, trail>>
       ELSE IF fault = "graph"
       THEN /\ last' = Label("start", "GraphBuildError")
            /\ UNCHANGED <<currently_playing_id, pipeline, graph, children,
                           cleanup, bus, listener, trail>>
       ELSE LET r == play_next(playlist, currently_playing_id, NoChildren, {},
                               None, IF fault = "playing" THEN "none" ELSE fault,
                               pads)
                ok == r.res = "Ok" /\ fault = "none"
            IN  /\ listener' = Polling
                /\ currently_playing_id' = r.playing_id
                /\ pipeline' = IF ok \/ r.res # "Ok" THEN Some("pipeline") ELSE None
                /\ graph' = IF ok THEN "playing"
                            ELSE IF r.res # "Ok" THEN "stopped" ELSE "none"
                /\ children' = IF ok THEN r.children ELSE NoChildren
                /\ cleanup' = {}
                /\ bus' = <<>>
                /\ last' = Traced("start",
                                  IF r.res # "Ok" THEN "FirstItemFailed"
                                  ELSE IF fault = "playing" THEN "StateChangeFailed"
                                  ELSE "Ok",
                                  r.steps
                                  \o (IF r.res = "Ok"
                                      THEN <<Step("set_state(Playing)", {})>>
                                      ELSE <<>>)
                                  \o (IF ok THEN pad_added_steps(pads) ELSE <<>>))
                /\ trail' = IF fault = "none"
                            THEN TrailAdvance(trail, playlist, currently_playing_id, r)
                            ELSE TrailOff

\* Streamer::start that stores the pipeline in the Streamer before the
\* graph is built and leaves it there when the build fails.
start_keeps_graph(fault, pads) ==
    /\ pipeline # None \/ graph = "none"
    /\ UNCHANGED <<playlist, NEXT_ID, issued>>
    /\ IF pipeline # None
       THEN /\ last' = Label("start", "AlreadyRunning")
            /\ UNCHANGED <<currently_playing_id, pipeline, graph, children,
                           cleanup, bus, listener, trail>>
       ELSE IF fault = "graph"
       THEN /\ last' = Label("start", "GraphBuildError")
            /\ pipeline' = Some("pipeline")
            /\ graph' = "stopped"
            /\ UNCHANGED <<currently_playing_id, children,
                           cleanup, bus, listener, trail>>
       ELSE LET r == play_next(playlist, currently_playing_id, NoChildren, {},
                               None, IF fault = "playing" THEN "none" ELSE fault,
                               pads)
                ok == r.res = "Ok" /\ fault = "none"
            IN  /\ listener' = Polling
                /\ currently_playing_id' = r.playing_id
                /\ pipeline' = IF ok THEN Some("pipeline") ELSE None
                /\ graph' = IF ok THEN "playing" ELSE "none"
                /\ children' = IF ok THEN r.children ELSE NoChildren
                /\ cleanup' = {}
                /\ bus' = <<>>
                /\ last' = Traced("start",
                                  IF r.res # "Ok" THEN "FirstItemFailed"
                                  ELSE IF fault = "playing" THEN "StateChangeFailed"
                                  ELSE "Ok",
                                  r.steps
                                  \o (IF r.res = "Ok"
                                      THEN <<Step("set_state(Playing)", {})>>
                                      ELSE <<>>)
                                  \o (IF ok THEN pad_added_steps(pads) ELSE <<>>))
                /\ trail' = IF fault = "none"
                            THEN TrailAdvance(trail, playlist, currently_playing_id, r)
                            ELSE TrailOff

\* Streamer::start.  A start is taken when the previous session's graph has
\* been released (or to be refused as already running).
start(fault, pads) ==
    /\ pipeline # None \/ graph = "none"
    /\ UNCHANGED <<playlist, NEXT_ID, issued>>
    /\ IF pipeline # None
       THEN /\ last' = Label("start", "AlreadyRunning")
            /\ UNCHANGED <<currently_playing_id, pipeline, graph, children,
                           cleanup, bus, listener, trail>>
       ELSE IF fault = "graph"
       THEN /\ last' = Label("start", "GraphBuildError")
            /\ UNCHANGED <<currently_playing_id, pipeline, graph, children,
                           cleanup, bus, listener, trail>>
       ELSE LET r == play_next(playlist, currently_playing_id, NoChildren, {},
                               None, IF fault = "playing" THEN "none" ELSE fault,
                               pads)
                ok == r.res = "Ok" /\ fault = "none"
            IN  /\ listener' = Polling
                /\ currently_playing_id' = r.playing_id
                /\ pipeline' = IF ok THEN Some("pipeline") ELSE None
                /\ graph' = IF ok THEN "playing" ELSE "none"
                /\ children' = IF ok THEN r.children ELSE NoChildren
                /\ cleanup' = {}
                /\ bus' = <<>>
                /\ last' = Traced("start",
                                  IF r.res # "Ok" THEN "FirstItemFailed"
                                  ELSE IF fault = "playing" THEN "StateChangeFailed"
                                  ELSE "Ok",
                                  r.steps
                                  \o (IF r.res = "Ok"
                                      THEN <<Step("set_state(Playing)", {})>>
                                      ELSE <<>>)
                                  \o (IF ok THEN pad_added_steps(pads) ELSE <<>>))
                /\ trail' = IF fault = "none"
                            THEN TrailAdvance(trail, playlist, currently_playing_id, r)
                            ELSE TrailOff

\* Streamer::stop.  null_ok: whether set_state(Null) succeeds.  A pipeline
\* that reaches Null flushes its bus (auto-flush-bus).  stop returns once it
\* has the current-id lock, which an advance of the listener holds until it
\* returns.
stop(null_ok) ==
    /\ listener.pc # "switch"
    /\ UNCHANGED <<playlist, NEXT_ID, issued, listener>>
    /\ IF pipeline # None /\ ~null_ok
       THEN /\ currently_playing_id' = currently_playing_id
            /\ last' = Label("stop", "StateChangeFailed")
            /\ trail' = TrailOff
       ELSE /\ currently_playing_id' = None
            /\ last' = Label("stop", "Ok")
            /\ trail' = TrailIdle
    /\ pipeline' = None
    /\ LET g == GraphAfter(None, listener,
                           IF graph = "none" THEN "none" ELSE "stopped",
                           children, cleanup,
                           IF pipeline # None /\ null_ok THEN <<>> ELSE bus)
       IN  /\ graph' = g.graph
           /\ children' = g.children
           /\ cleanup' = g.cleanup
           /\ bus' = g.bus

-----------------------------------------------------------------------------
(* The media engine: end of stream on a source's pad, and the teardown      *)
(* closure handed to call_async                                             *)

\* The EOS probe on pad `pad` of source id posts hayai-playlist-eos.
pad_eos(id, pad) ==
    /\ graph = "playing"
    /\ id \in DOMAIN children
    /\ pad \in children[id]
    /\ Len(bus) < MaxBus
    /\ children' = [children EXCEPT ![id] = @ \ {pad}]
    /\ bus' = Append(bus, Application(id))
    /\ last' = Label("pad_eos", "Ok")
    /\ trail' = TrailFinish(trail, playlist, id)
    /\ UNCHANGED <<playlist, NEXT_ID, issued, currently_playing_id, pipeline, graph,
                   cleanup, listener>>

\* An element of the playing graph posts an error on the bus.
post_error ==
    /\ graph = "playing"
    /\ Len(bus) < MaxBus
    /\ bus' = Append(bus, ErrorMsg)
    /\ last' = Label("post_error", "Ok")
    /\ UNCHANGED <<playlist, NEXT_ID, issued, currently_playing_id, pipeline, graph,
                   children, cleanup, listener, trail>>

\* The playing pipeline posts EOS on the bus: its sink has seen the end of
\* the stream.
post_eos ==
    /\ graph = "playing"
    /\ Len(bus) < MaxBus
    /\ bus' = Append(bus, EosMsg)
    /\ last' = Label("post_eos", "Ok")
    /\ UNCHANGED <<playlist, NEXT_ID, issued, currently_playing_id, pipeline, graph,
                   children, cleanup, listener, trail>>

\* The closure of call_async that gives up at the first step that fails.
teardown_steps_abort(null_ok) ==
    IF null_ok
    THEN <<Step("set_state(Null)", {}), Step("release_pads(video_selector)", {}),
           Step("release_pads(audio_selector)", {}), Step("pipeline.remove", {})>>
    ELSE <<Step("set_state(Null)", {})>>

\* The statements of the closure of call_async, in order; it runs on a
\* thread of the pipeline's pool, which holds neither lock.  The result of
\* set_state (null_ok) is discarded.
teardown_steps(null_ok) ==
    <<Step("set_state(Null)", {}), Step("release_pads(video_selector)", {}),
      Step("release_pads(audio_selector)", {}), Step("pipeline.remove", {})>>

\* The closure of call_async: set the old source to Null, release its
\* selector pads, remove it from the pipeline.  null_ok: whether
\* set_state(Null) succeeds.
teardown(id, null_ok) ==
    /\ id \in cleanup
    /\ LET steps == teardown_steps(null_ok)
           removed == FirstStep(steps, "pipeline.remove") # 0
           g == GraphAfter(pipeline, listener, graph,
                           IF removed
                           THEN [i \in DOMAIN children \ {id} |-> children[i]]
                           ELSE children,
                           cleanup \ {id}, bus)
       IN  /\ graph' = g.graph
           /\ children' = g.children
           /\ cleanup' = g.cleanup
           /\ bus' = g.bus
           /\ last' = Traced("teardown", IF null_ok THEN "Ok" ELSE "NullFailed",
                             steps)
    /\ UNCHANGED <<playlist, NEXT_ID, issued, currently_playing_id, pipeline,
                   listener, trail>>

-----------------------------------------------------------------------------
(* The bus listener thread spawned by start                                 *)

\* timed_pop returned a hayai-playlist-eos message and the weak pipeline
\* reference upgraded.
listener_pop ==
    /\ listener.pc = "poll"
    /\ graph # "none"
    /\ bus # <<>>
    /\ Head(bus).type = "Application"
    /\ listener' = Listener("handle", Head(bus).src, None, <<>>)
    /\ bus' = Tail(bus)
    /\ last' = Label("listener_pop", "Ok")
    /\ UNCHANGED <<playlist, NEXT_ID, issued, currently_playing_id, pipeline, graph,
                   children, cleanup, trail>>

\* The Application arm up to drop(playlist): the finished source is
\* resolved by name, play_next takes both locks and reads the playlist and
\* the current id.  On an empty playlist play_next returns here.
listener_snapshot ==
    /\ listener.pc = "handle"
    /\ LET old_src == by_name(children, listener.msg) IN
       IF playlist = <<>>
       THEN LET r == play_next(playlist, currently_playing_id, children,
                               cleanup, old_src, "none", {})
                g == GraphAfter(pipeline, Polling, graph, children, cleanup, bus)
            IN  /\ listener' = Polling
                /\ graph' = g.graph
                /\ children' = g.children
                /\ cleanup' = g.cleanup
                /\ bus' = g.bus
                /\ last' = Traced("listener_play_next", r.res, r.steps)
                /\ trail' = TrailAdvance(trail, playlist, currently_playing_id, r)
       ELSE /\ listener' = Listener("switch", listener.msg, old_src, playlist)
            /\ last' = Label("listener_snapshot", "Ok")
            /\ UNCHANGED <<graph, children, cleanup, bus, trail>>
    /\ UNCHANGED <<playlist, NEXT_ID, issued, currently_playing_id, pipeline>>

\* The rest of play_next that reads the playlist again when it attaches.
listener_play_next_rereads(fault, pads) ==
    /\ listener.pc = "switch"
    /\ LET r == play_next(playlist, currently_playing_id, children, cleanup,
                          listener.old, fault, pads)
           g == GraphAfter(pipeline, Polling, graph, r.children,
                           r.cleanup \cap DOMAIN r.children, bus)
       IN  /\ currently_playing_id' = r.playing_id
           /\ graph' = g.graph
           /\ children' = g.children
           /\ cleanup' = g.cleanup
           /\ bus' = g.bus
           /\ last' = Traced("listener_play_next", r.res,
                             r.steps
                             \o (IF r.res = "Ok" /\ graph = "playing"
                                 THEN pad_added_steps(pads)
                                 ELSE <<>>))
           /\ trail' = TrailAdvance(trail, listener.snap, currently_playing_id, r)
    /\ listener' = Polling
    /\ UNCHANGED <<playlist, NEXT_ID, issued, pipeline>>

\* The rest of play_next, from switch_source to its return, on the item
\* chosen from the playlist as it was read.  A teardown scheduled for an
\* element that is no longer in the graph finds nothing to do.
listener_play_next(fault, pads) ==
    /\ listener.pc = "switch"
    /\ LET r == play_next(listener.snap, currently_playing_id, children, cleanup,
                          listener.old, fault, pads)
           g == GraphAfter(pipeline, Polling, graph, r.children,
                           r.cleanup \cap DOMAIN r.children, bus)
       IN  /\ currently_playing_id' = r.playing_id
           /\ graph' = g.graph
           /\ children' = g.children
           /\ cleanup' = g.cleanup
           /\ bus' = g.bus
           /\ last' = Traced("listener_play_next", r.res,
                             r.steps
                             \o (IF r.res = "Ok" /\ graph = "playing"
                                 THEN pad_added_steps(pads)
                                 ELSE <<>>))
           /\ trail' = TrailAdvance(trail, listener.snap, currently_playing_id, r)
    /\ listener' = Polling
    /\ UNCHANGED <<playlist, NEXT_ID, issued, pipeline>>

\* The Error arm that leaves the loop.
listener_error_breaks ==
    /\ listener.pc = "poll"
    /\ graph # "none"
    /\ bus # <<>>
    /\ Head(bus).type = "Error"
    /\ listener' = NoListener
    /\ bus' = Tail(bus)
    /\ last' = Label("listener_error", "Logged")
    /\ UNCHANGED <<playlist, NEXT_ID, issued, currently_playing_id, pipeline, graph,
                   children, cleanup, trail>>

\* The Error arm: timed_pop returned an error message; it is printed and
\* the loop goes on.
listener_error ==
    /\ listener.pc = "poll"
    /\ graph # "none"
    /\ bus # <<>>
    /\ Head(bus).type = "Error"
    /\ listener' = Polling
    /\ bus' = Tail(bus)
    /\ last' = Label("listener_error", "Logged")
    /\ UNCHANGED <<playlist, NEXT_ID, issued, currently_playing_id, pipeline, graph,
                   children, cleanup, trail>>

\* The Eos arm that stays in the loop.
listener_eos_continues ==
    /\ listener.pc = "poll"
    /\ graph # "none"
    /\ bus # <<>>
    /\ Head(bus).type = "Eos"
    /\ listener' = Polling
    /\ bus' = Tail(bus)
    /\ last' = Label("listener_eos", "Ok")
    /\ UNCHANGED <<playlist, NEXT_ID, issued, currently_playing_id, pipeline, graph,
                   children, cleanup, trail>>

\* The Eos arm: timed_pop returned the pipeline's EOS; the thread leaves the
\* loop and ends.
listener_eos ==
    /\ listener.pc = "poll"
    /\ graph # "none"
    /\ bus # <<>>
    /\ Head(bus).type = "Eos"
    /\ listener' = NoListener
    /\ bus' = Tail(bus)
    /\ last' = Label("listener_eos", "Ok")
    /\ UNCHANGED <<playlist, NEXT_ID, issued, currently_playing_id, pipeline, graph,
                   children, cleanup, trail>>

\* A listener that keeps polling when the weak pipeline reference no
\* longer upgrades.
listener_exit_polls_on ==
    /\ listener.pc = "poll"
    /\ graph = "none"
    /\ listener' = Polling
    /\ last' = Label("listener_exit", "Ok")
    /\ UNCHANGED <<playlist, NEXT_ID, issued, currently_playing_id, pipeline, graph,
                   children, cleanup, bus, trail>>

\* The weak pipeline reference no longer upgrades: the thread ends.
listener_exit ==
    /\ listener.pc = "poll"
    /\ graph = "none"
    /\ listener' = NoListener
    /\ last' = Label("listener_exit", "Ok")
    /\ UNCHANGED <<playlist, NEXT_ID, issued, currently_playing_id, pipeline, graph,
                   children, cleanup, bus, trail>>

-----------------------------------------------------------------------------
(* The two Mutexes: the playlist lock and the current-id lock, statement by  *)
(* statement                                                                 *)

\* The threads that take the locks: two threads of the application that
\* call the Streamer, the bus listener, the thread that handle_eos spawns
\* for an advance, and a thread of the pipeline's pool that runs the
\* closures of call_async.
Callers == {"caller1", "caller2"}
Advancers == {"listener", "handle_eos"}
Threads == Callers \cup Advancers \cup {"pool"}

\* A thread that runs no operation.
Resting == [op |-> "none", todo |-> <<>>, guards |-> <<>>]
NoThreads == [t \in Threads |-> Resting]

\* The results of an advance.
AdvanceResults ==
    {"Ok", "EmptyPlaylist", "BuildFailed", "DuplicateName", "SyncFailed"}

\* The statements of the operations, in order, each with the guards the
\* thread holds while it runs; a function's guards are dropped when it
\* returns, a temporary guard at the end of its statement.
add_item_steps ==
    <<Step("lock playlist", {}), Step("fetch_add", {"playlist"}),
      Step("push", {"playlist"}), Step("return", {"playlist"})>>

remove_item_steps ==
    <<Step("lock playlist", {}), Step("retain", {"playlist"}),
      Step("return", {"playlist"})>>

move_item_steps(res) ==
    LET check == <<Step("lock playlist", {}), Step("len", {"playlist"})>>
        find  == <<Step("position", {"playlist"})>>
        move  == <<Step("Vec::remove", {"playlist"}),
                   Step("Vec::insert", {"playlist"})>>
        ret   == <<Step("return", {"playlist"})>>
    IN  IF res = "InvalidIndex" THEN check \o ret
        ELSE IF res = "NotFound" THEN check \o find \o ret
        ELSE check \o find \o move \o ret

get_playlist_clone_steps ==
    <<Step("lock playlist", {}), Step("clone", {"playlist"}),
      Step("return", {"playlist"})>>

get_currently_playing_id_steps ==
    <<Step("lock playing_id", {}), Step("copy", {"playing_id"}),
      Step("return", {"playing_id"})>>

\* play_next up to its return, where the guards it still holds are dropped.
play_next_call(res, element_to_remove) ==
    play_next_steps(res, element_to_remove)
    \o <<Step("return", IF res = "EmptyPlaylist"
                        THEN {"playlist", "playing_id"}
                        ELSE {"playing_id"})>>

\* Streamer::start: the graph is built and the listener spawned with no
\* lock held, then play_next, then set_state(Playing).
start_steps(res) ==
    IF res \in {"AlreadyRunning", "GraphBuildError"}
    THEN <<Step("return", {})>>
    ELSE <<Step("thread::spawn", {})>>
         \o play_next_call(res, None)
         \o (IF res = "Ok" THEN <<Step("set_state(Playing)", {})>> ELSE <<>>)
         \o <<Step("return", {})>>

\* A stop that reads the playlist while it holds the current-id guard.
stop_steps_reads_playlist(running, null_ok) ==
    LET take  == <<Step("pipeline.take", {})>>
        null  == IF running THEN <<Step("set_state(Null)", {})>> ELSE <<>>
        clear == <<Step("lock playing_id", {}),
                   Step("lock playlist", {"playing_id"}),
                   Step("set playing_id", {"playlist", "playing_id"}),
                   Step("return", {"playlist", "playing_id"})>>
    IN  IF running /\ ~null_ok
        THEN take \o null \o <<Step("return", {})>>
        ELSE take \o null \o clear

\* Streamer::stop: the graph is taken and set to Null with no lock held,
\* then the current id is cleared under its lock.
stop_steps(running, null_ok) ==
    LET take  == <<Step("pipeline.take", {})>>
        null  == IF running THEN <<Step("set_state(Null)", {})>> ELSE <<>>
        clear == <<Step("lock playing_id", {}),
                   Step("set playing_id", {"playing_id"}),
                   Step("return", {"playing_id"})>>
    IN  IF running /\ ~null_ok
        THEN take \o null \o <<Step("return", {})>>
        ELSE take \o null \o clear

\* The closure of call_async up to its return.
teardown_call(null_ok) ==
    teardown_steps(null_ok) \o <<Step("return", {})>>

\* The Mutex a statement locks, if it locks one.
mutex_of(st) ==
    IF st.op = "lock playlist" THEN Some("playlist")
    ELSE IF st.op = "lock playing_id" THEN Some("playing_id")
    ELSE None

\* The guards a thread holds, as a set.
held_by(th, t) == {th[t].guards[i] : i \in 1..Len(th[t].guards)}

\* The threads that hold Mutex m.
owners(th, m) == {t \in Threads : m \in held_by(th, t)}

\* The Mutex thread t is blocked on: its next statement locks a Mutex that
\* some thread holds (std::sync::Mutex is not reentrant).
waits_for(th, t) ==
    IF th[t].todo = <<>> THEN None
    ELSE LET m == mutex_of(Head(th[t].todo)) IN
         IF m # None /\ owners(th, m[1]) # {} THEN m ELSE None

\* The statements of an operation that take a guard or give one back; the
\* statements between them touch neither Mutex.
guard_events(steps) ==
    SelectSeq(steps, LAMBDA st : \/ mutex_of(st) # None
                                 \/ st.op \in {"drop playlist", "return"})

\* A thread that runs nothing begins operation op, whose statements are
\* steps; it is followed from one statement on a guard to the next.
thread_call(t, op, steps) ==
    /\ threads[t] = Resting
    /\ threads' = [threads EXCEPT ![t] = [op |-> op,
                                          todo |-> guard_events(steps),
                                          guards |-> <<>>]]
    /\ UNCHANGED <<playlist, NEXT_ID, currently_playing_id, pipeline, graph,
                   children, cleanup, bus, listener, last, trail, calls, eos,
                   moving, snapshot, issued>>

\* start and stop borrow the Streamer mutably: no other call is under way
\* when one begins.
exclusive_call(t, op, steps) ==
    /\ \A u \in Callers : threads[u] = Resting
    /\ thread_call(t, op, steps)

\* The other operations borrow the Streamer shared: neither start nor stop
\* is under way when one begins.
shared_call(t, op, steps) ==
    /\ \A u \in Callers : threads[u].op \notin {"start", "stop"}
    /\ thread_call(t, op, steps)

\* Thread t runs up to and including its next statement on a guard.  A
\* lock waits until the Mutex is free; drop(playlist) gives the playlist guard back; a return drops the
\* guards of the function that returns.
thread_step(t) ==
    /\ threads[t].todo # <<>>
    /\ LET st   == Head(threads[t].todo)
           rest == Tail(threads[t].todo)
           m    == mutex_of(st)
       IN  /\ m # None => owners(threads, m[1]) = {}
           /\ threads' = [threads EXCEPT ![t] =
                 IF rest = <<>> THEN Resting
                 ELSE [op |-> @.op,
                       todo |-> rest,
                       guards |->
                          IF m # None THEN Append(@.guards, m[1])
                          ELSE IF st.op = "drop playlist"
                          THEN SelectSeq(@.guards, LAMBDA g : g # "playlist")
                          ELSE IF st.op = "return" THEN <<>>
                          ELSE @.guards]]
    /\ UNCHANGED <<playlist, NEXT_ID, currently_playing_id, pipeline, graph,
                   children, cleanup, bus, listener, last, trail, calls, eos,
                   moving, snapshot, issued>>

-----------------------------------------------------------------------------

Init ==
    /\ playlist = <<>>
    /\ NEXT_ID = 1
    /\ currently_playing_id = None
    /\ pipeline = None
    /\ graph = "none"
    /\ children = NoChildren
    /\ cleanup = {}
    /\ bus = <<>>
    /\ listener = NoListener
    /\ last = Label("new", "Ok")
    /\ trail = TrailIdle
    /\ calls = 0
    /\ eos = 0
    /\ moving = None
    /\ snapshot = <<>>
    /\ issued = {}
    /\ threads = NoThreads

\* A call by the application, within the run's budget of calls.
Api(call) == Call /\ call

\* A step of the listener thread or of the media engine.
Engine(step) == step /\ UNCHANGED <<calls, eos, moving, snapshot, threads>>

\* A pad of a source sees the end of its stream.
Eos(step) ==
    eos < MaxEos /\ step /\ eos' = eos + 1 /\ UNCHANGED <<calls, moving, snapshot, threads>>

Next ==
    \/ \E uri \in SessionUris : Api(add_item(uri))
    \/ \E id \in Ids : Api(remove_item(id))
    \/ \E id \in Ids, new_index \in Indices : Api(move_item(id, new_index))
    \/ \E fault \in StartFaults :
          \E pads \in (IF fault = "none" THEN PadSets ELSE {{}}) :
              Api(start(fault, pads))
    \/ \E null_ok \in BOOLEAN : Api(stop(null_ok))
    \/ \E id \in Ids, pad \in Kinds : Eos(pad_eos(id, pad))
    \/ \E id \in Ids, null_ok \in BOOLEAN : Engine(teardown(id, null_ok))
    \/ Engine(listener_pop)
    \/ Engine(listener_snapshot)
    \/ \E fault \in AttachFaults :
          \E pads \in (IF fault = "none" THEN PadSets ELSE {{}}) :
              Engine(listener_play_next(fault, pads))
    \/ Engine(listener_exit)

Spec == Init /\ [][Next]_vars

\* The playlist store alone: the application adds, removes and moves items
\* and no session is started.
NextStore ==
    \/ \E uri \in Uris : NEXT_ID <= MaxId /\ Engine(add_item(uri))
    \/ \E id \in Ids : Engine(remove_item(id))
    \/ \E id \in Ids, new_index \in Indices : Engine(move_item(id, new_index))

SpecStore == Init /\ [][NextStore]_vars

\* The playlist store with a reader: one thread adds, removes and moves
\* items, move_item in its two steps on the Vec, while another calls
\* get_playlist_clone; add_item and remove_item change the Vec in one step
\* under the lock.
NextSnap ==
    \/ \E uri \in SessionUris :
          NEXT_ID <= MaxId /\ playlist_lock_free /\ Engine(add_item(uri))
    \/ \E id \in Ids : playlist_lock_free /\ Engine(remove_item(id))
    \/ \E id \in Ids, new_index \in Indices : move_item_remove(id, new_index)
    \/ move_item_insert
    \/ call_get_playlist_clone

SpecSnap == Init /\ [][NextSnap]_vars

\* A session on the playlist [A, B, C] with ids 1, 2, 3, as three add_item
\* calls on a new Streamer leave it.
InitABC ==
    /\ playlist = <<PlaylistItem(1, "A"), PlaylistItem(2, "B"), PlaylistItem(3, "A")>>
    /\ NEXT_ID = 4
    /\ currently_playing_id = None
    /\ pipeline = None
    /\ graph = "none"
    /\ children = NoChildren
    /\ cleanup = {}
    /\ bus = <<>>
    /\ listener = NoListener
    /\ last = Label("add_item", "Ok")
    /\ trail = TrailIdle
    /\ calls = 0
    /\ eos = 0
    /\ moving = None
    /\ snapshot = <<>>
    /\ issued = {1, 2, 3}
    /\ threads = NoThreads

\* A call by the application in the session on [A, B, C].
ApiABC(call) ==
    /\ calls < MaxCallsABC /\ call /\ calls' = calls + 1
    /\ UNCHANGED <<eos, moving, snapshot, threads>>

\* The application starts the session, removes items while it runs, stops it.
NextABC ==
    \/ \E fault \in StartFaults :
          \E pads \in (IF fault = "none" THEN PadSets ELSE {{}}) :
              ApiABC(start(fault, pads))
    \/ \E null_ok \in BOOLEAN : ApiABC(stop(null_ok))
    \/ \E id \in Ids : ApiABC(remove_item(id))
    \/ \E id \in Ids, pad \in Kinds : Eos(pad_eos(id, pad))
    \/ \E id \in Ids, null_ok \in BOOLEAN : Engine(teardown(id, null_ok))
    \/ Engine(listener_pop)
    \/ Engine(listener_snapshot)
    \/ \E fault \in AttachFaults :
          \E pads \in (IF fault = "none" THEN PadSets ELSE {{}}) :
              Engine(listener_play_next(fault, pads))
    \/ Engine(listener_exit)

SpecABC == InitABC /\ [][NextABC]_vars

\* A session on the playlist [A, B] with ids 1, 2, as two add_item calls on
\* a new Streamer leave it.
InitAB ==
    /\ playlist = <<PlaylistItem(1, "A"), PlaylistItem(2, "A")>>
    /\ NEXT_ID = 3
    /\ currently_playing_id = None
    /\ pipeline = None
    /\ graph = "none"
    /\ children = NoChildren
    /\ cleanup = {}
    /\ bus = <<>>
    /\ listener = NoListener
    /\ last = Label("add_item", "Ok")
    /\ trail = TrailIdle
    /\ calls = 0
    /\ eos = 0
    /\ moving = None
    /\ snapshot = <<>>
    /\ issued = {1, 2}
    /\ threads = NoThreads

\* A call by the application in the session on [A, B].
ApiAB(call) ==
    /\ calls < MaxCallsAB /\ call /\ calls' = calls + 1
    /\ UNCHANGED <<eos, moving, snapshot, threads>>

\* The application starts the session and changes the playlist while the
\* session runs.
NextAB ==
    \/ \E fault \in StartFaults :
          \E pads \in (IF fault = "none" THEN PadSets ELSE {{}}) :
              ApiAB(start(fault, pads))
    \/ \E uri \in SessionUris : ApiAB(add_item(uri))
    \/ \E id \in Ids : ApiAB(remove_item(id))
    \/ \E id \in Ids, new_index \in Indices : ApiAB(move_item(id, new_index))
    \/ \E id \in Ids, pad \in Kinds : Eos(pad_eos(id, pad))
    \/ \E id \in Ids, null_ok \in BOOLEAN : Engine(teardown(id, null_ok))
    \/ Engine(listener_pop)
    \/ Engine(listener_snapshot)
    \/ \E fault \in AttachFaults :
          \E pads \in (IF fault = "none" THEN PadSets ELSE {{}}) :
              Engine(listener_play_next(fault, pads))
    \/ Engine(listener_exit)

SpecAB == InitAB /\ [][NextAB]_vars

\* A call by the application in the sessions whose listener is followed to
\* its end.
ApiLive(call) ==
    /\ calls < MaxCallsLive /\ call /\ calls' = calls + 1
    /\ UNCHANGED <<eos, moving, snapshot, threads>>

\* The streams of a source in the sessions whose listener is followed to
\* its end: video alone.
LivePads == {{"video"}}

\* The application starts sessions on [A, B] and stops them; the media
\* engine plays the sources, posts errors and the pipeline's EOS.
NextLive ==
    \/ \E fault \in StartFaults :
          \E pads \in (IF fault = "none" THEN LivePads ELSE {{}}) :
              ApiLive(start(fault, pads))
    \/ \E null_ok \in BOOLEAN : ApiLive(stop(null_ok))
    \/ \E id \in Ids, pad \in Kinds : Eos(pad_eos(id, pad))
    \/ \E id \in Ids, null_ok \in BOOLEAN : Engine(teardown(id, null_ok))
    \/ Engine(listener_pop)
    \/ Engine(listener_snapshot)
    \/ \E fault \in AttachFaults :
          \E pads \in (IF fault = "none" THEN LivePads ELSE {{}}) :
              Engine(listener_play_next(fault, pads))
    \/ Engine(listener_exit)
    \/ Engine(post_error)
    \/ Engine(post_eos)
    \/ Engine(listener_error)
    \/ Engine(listener_eos)

\* A step of the listener thread: an iteration of its loop, or the part of
\* one up to the next lock.
ListenerStep ==
    \/ Engine(listener_pop)
    \/ Engine(listener_snapshot)
    \/ \E fault \in AttachFaults :
          \E pads \in (IF fault = "none" THEN PadSets ELSE {{}}) :
              Engine(listener_play_next(fault, pads))
    \/ Engine(listener_exit)
    \/ Engine(listener_error)
    \/ Engine(listener_eos)

\* A closure handed to call_async runs.
TeardownStep == \E id \in Ids, null_ok \in BOOLEAN : Engine(teardown(id, null_ok))

\* The listener thread, once spawned, keeps running its loop (timed_pop
\* returns after 100 ms at the latest), and the pipeline's thread pool runs
\* every closure it was given.
SpecLive ==
    InitAB /\ [][NextLive]_vars /\ WF_vars(ListenerStep) /\ WF_vars(TeardownStep)

\* The threads of the program, each running the statements of its
\* operations one at a time: the application calls the Streamer, the
\* listener and the thread of handle_eos advance, the pool runs teardowns.
NextLock ==
    \/ \E t \in Callers : shared_call(t, "add_item", add_item_steps)
    \/ \E t \in Callers : shared_call(t, "remove_item", remove_item_steps)
    \/ \E t \in Callers, res \in {"Ok", "InvalidIndex", "NotFound"} :
          shared_call(t, "move_item", move_item_steps(res))
    \/ \E t \in Callers :
          shared_call(t, "get_playlist_clone", get_playlist_clone_steps)
    \/ \E t \in Callers :
          shared_call(t, "get_currently_playing_id",
                      get_currently_playing_id_steps)
    \/ \E t \in Callers,
          res \in AdvanceResults \cup {"AlreadyRunning", "GraphBuildError"} :
          exclusive_call(t, "start", start_steps(res))
    \/ \E t \in Callers, running \in BOOLEAN, null_ok \in BOOLEAN :
          exclusive_call(t, "stop", stop_steps(running, null_ok))
    \/ \E res \in AdvanceResults, old_src \in {None, Some(1)} :
          thread_call("listener", "play_next", play_next_call(res, old_src))
    \/ \E res \in AdvanceResults :
          thread_call("handle_eos", "play_next", play_next_call(res, Some(1)))
    \/ \E null_ok \in BOOLEAN :
          thread_call("pool", "teardown", teardown_call(null_ok))
    \/ \E t \in Threads : thread_step(t)

SpecLock == Init /\ [][NextLock]_vars

-----------------------------------------------------------------------------
(* Properties of the playlist store (SpecStore)                             *)

\* C4: for every playlist, id and index n >= the playlist's length (the
\* empty playlist included), move_item(id, n) fails with InvalidIndex and
\* the playlist is exactly what it was before the call.
C4_MoveIndexOutOfRange ==
    [][\A id \in Ids, n \in Indices :
          (move_item(id, n) /\ n >= Len(playlist))
              => (last'.res = "InvalidIndex" /\ playlist' = playlist)]_vars

\* C4's case: a move with an index out of range was refused on a playlist
\* that holds items.
C4_Witness ==
    /\ last = Label("move_item", "InvalidIndex")
    /\ Len(playlist) >= 2

\* C5: for every playlist and every index, move_item with an id that is not
\* in the playlist fails with ItemNotFound, also when the index is out of
\* range, and the playlist is exactly what it was before the call.
C5_MoveUnknownIdNotFound ==
    [][\A id \in Ids, n \in Indices :
          (move_item(id, n) /\ id \notin ids_of(playlist))
              => (last'.res = "ItemNotFound" /\ playlist' = playlist)]_vars

\* C5, as the code has it: move_item with an id that is not in the playlist
\* fails and leaves the playlist exactly as it was; the error is ItemNotFound
\* when the index is below the playlist's length and InvalidIndex otherwise.
C5_MoveUnknownIdFails ==
    [][\A id \in Ids, n \in Indices :
          (move_item(id, n) /\ id \notin ids_of(playlist))
              => /\ playlist' = playlist
                 /\ last'.res = IF n < Len(playlist)
                                THEN "ItemNotFound"
                                ELSE "InvalidIndex"]_vars

\* C5's case: a move of an id that is not in the playlist was refused with
\* ItemNotFound (the index was in range, the playlist holds other items).
C5_Witness ==
    /\ last = Label("move_item", "ItemNotFound")
    /\ playlist # <<>>
    /\ ids_of(playlist) # issued

\* C6: when id is in the playlist and new_index < length, move_item(id,
\* new_index) succeeds; afterwards the item with that id is at position
\* new_index, the playlist has the same length and the same set of items,
\* and all other items keep their relative order.
C6_MoveItem ==
    [][\A id \in Ids, n \in Indices :
          (move_item(id, n) /\ id \in ids_of(playlist) /\ n < Len(playlist))
              => /\ last'.res = "Ok"
                 /\ playlist'[n + 1].id = id
                 /\ Len(playlist') = Len(playlist)
                 /\ {playlist'[i] : i \in 1..Len(playlist')}
                        = {playlist[i] : i \in 1..Len(playlist)}
                 /\ SelectSeq(playlist', LAMBDA item : item.id # id)
                        = SelectSeq(playlist, LAMBDA item : item.id # id)]_vars

\* C6's case: a move succeeded on three items and they are no longer in the
\* order of their insertion.
C6_Witness ==
    /\ last = Label("move_item", "Ok")
    /\ Len(playlist) = 3
    /\ \E i \in 1..2 : playlist[i].id > playlist[i + 1].id

\* C7: after any sequence of add_item, remove_item and move_item calls,
\* successful or failing, the playlist returned by get_playlist_clone
\* contains no two items with the same id.
C7_UniqueIds ==
    \A i, j \in 1..Len(get_playlist_clone) :
        i # j => get_playlist_clone[i].id # get_playlist_clone[j].id

\* C7's case: items were added, one was removed, the rest were moved out of
\* their insertion order and a move has just failed.
C7_Witness ==
    /\ last.op = "move_item" /\ last.res # "Ok"
    /\ Len(playlist) >= 2
    /\ Cardinality(issued) > Len(playlist)
    /\ playlist[1].id > playlist[2].id

\* C8: add_item always succeeds, appends the new item at the end of the
\* playlist leaving all existing items in place, and gives it an id strictly
\* greater than every id issued before; an id is never issued twice, also
\* after the item that carried it was removed.
C8_AddItem ==
    [][\A uri \in Uris :
          add_item(uri)
              => /\ last'.res = "Ok"
                 /\ Len(playlist') = Len(playlist) + 1
                 /\ SubSeq(playlist', 1, Len(playlist)) = playlist
                 /\ playlist'[Len(playlist')].uri = uri
                 /\ \A old \in issued : playlist'[Len(playlist')].id > old
                 /\ issued' = issued \cup {playlist'[Len(playlist')].id}
                 /\ Cardinality(issued') = Cardinality(issued) + 1]_vars

\* C8's case: an item was added after an earlier one had been removed.
C8_Witness ==
    /\ last = Label("add_item", "Ok")
    /\ Cardinality(issued) > Len(playlist)
    /\ Len(playlist) >= 2

\* C9: remove_item(id) never fails: when an item with that id is present the
\* resulting playlist is the previous one with exactly that item deleted and
\* all other items in the same order; when no item has that id the playlist
\* is unchanged.
C9_RemoveItem ==
    [][\A id \in Ids :
          remove_item(id)
              => /\ last'.res = "Ok"
                 /\ IF id \in ids_of(playlist)
                    THEN /\ Len(playlist') = Len(playlist) - 1
                         /\ \E i \in 1..Len(playlist) :
                               /\ playlist[i].id = id
                               /\ \A j \in 1..(i - 1) : playlist'[j] = playlist[j]
                               /\ \A j \in i..Len(playlist') :
                                     playlist'[j] = playlist[j + 1]
                    ELSE playlist' = playlist]_vars

\* C9's case: the first of three items was removed and the other two are
\* left in their order.
C9_Witness ==
    /\ last = Label("remove_item", "Ok")
    /\ Len(playlist) = 2
    /\ playlist[1].id = 2 /\ playlist[2].id = 3

-----------------------------------------------------------------------------
(* Properties of the session (Spec, SpecABC)                                *)

\* The playlist holds the items in the order of their insertion and none
\* was removed: ids 1, 2, ..., N.
InsertionOrder ==
    /\ playlist # <<>>
    /\ \A i \in 1..Len(playlist) : playlist[i].id = i
    /\ issued = 1..Len(playlist)

\* C1: round-robin: after N >= 1 items are added to an empty playlist and
\* play_next is invoked starting with no current item and with no playlist
\* mutation in between, the k-th advance sets as current the k-th item in
\* insertion order for k = 1..N, and the (N+1)-th advance sets the first
\* item's id as current again.
C1_RoundRobin ==
    (trail.on /\ InsertionOrder)
        => \A k \in 1..Len(trail.seq) :
              trail.seq[k] = playlist[((k - 1) % Len(playlist)) + 1].id

\* C2: in a running session with playlist [A, B, C] (ids 1, 2, 3), start
\* makes the current id 1, and each time the source of the active item
\* finishes the current id moves to exactly the next item: once every event
\* posted has been handled, the current id after f finishes is that of the
\* item at index f mod 3.
C2_ScenarioABC ==
    (/\ trail.on
     /\ InsertionOrder /\ Len(playlist) = 3
     /\ pipeline # None
     /\ bus = <<>> /\ listener.pc = "poll")
        => get_currently_playing_id = Some(playlist[(trail.fin % 3) + 1].id)

\* C3: if the item whose id is the current id was removed from the playlist
\* and the playlist is still non-empty, the next advance (the media engine
\* building and starting the new source without fault) does not fail and
\* sets the current id to the item at index 0 of the remaining playlist.
C3_AdvanceAfterRemoval ==
    [][\A pads \in PadSets :
          (/\ listener_play_next("none", pads)
           /\ currently_playing_id # None
           /\ currently_playing_id[1] \in issued \ ids_of(listener.snap)
           /\ listener.snap # <<>>)
              => /\ last'.res = "Ok"
                 /\ currently_playing_id' = Some(listener.snap[1].id)]_vars

\* C10: stop is idempotent: stop called when no session is running returns
\* success and changes nothing (playlist, current id, session, graph and
\* listener are what they were before the call).
C10_StopIdempotent ==
    [][\A null_ok \in BOOLEAN :
          (stop(null_ok) /\ pipeline = None)
              => /\ last'.res = "Ok"
                 /\ UNCHANGED <<playlist, NEXT_ID, currently_playing_id,
                                pipeline, graph, children, cleanup, bus,
                                listener>>]_vars

\* The pad sets start and the listener's advance are given: those of a
\* source that starts and none for one that does not.
AnyPads == PadSets \cup {{}}

\* C11: start called while a session is running fails with AlreadyRunning
\* and leaves the running session, the playlist and the current id
\* unchanged; no second graph, listener or source is created.
C11_StartWhileRunning ==
    [][\A fault \in StartFaults, pads \in AnyPads :
          (start(fault, pads) /\ pipeline # None)
              => /\ last'.res = "AlreadyRunning"
                 /\ UNCHANGED <<playlist, NEXT_ID, currently_playing_id,
                                pipeline, graph, children, cleanup, bus,
                                listener>>]_vars

\* C11's case: a start was refused while a session was running with a
\* current item.
C11_Witness ==
    /\ last = Label("start", "AlreadyRunning")
    /\ pipeline # None
    /\ currently_playing_id # None
    /\ DOMAIN children # {}

\* C12: after stop returns, the current id is None and stays None until
\* the next successful start, whatever the listener thread was doing when
\* stop was called: a stop that returns Ok leaves no current id, and with no
\* session and no current id no step other than a start sets one.
C12_NoneAfterStop ==
    [][/\ \A null_ok \in BOOLEAN :
             (stop(null_ok) /\ last'.res = "Ok")
                 => currently_playing_id' = None
       /\ (/\ pipeline = None
           /\ currently_playing_id = None
           /\ last'.op # "start")
              => currently_playing_id' = None]_vars

Idle == pipeline = None /\ currently_playing_id = None

\* C14: with an empty playlist the advance attempted by start fails with
\* EmptyPlaylist without building any source, and the session stays Idle
\* (not running, no current id); a start retried right after a subsequent
\* add_item succeeds and activates the added item.
C14_EmptyPlaylist ==
    [][\A fault \in StartFaults \ {"graph"}, pads \in AnyPads :
          /\ (start(fault, pads) /\ Idle /\ playlist = <<>>)
                => /\ last'.res = "FirstItemFailed"
                   /\ last'.steps[Len(last'.steps)] =
                          Step("is_empty", {"playlist", "playing_id"})
                   /\ \A i \in 1..Len(last'.steps) :
                          last'.steps[i].op # "ElementFactory::make"
                   /\ Idle'
                   /\ graph' = "none" /\ children' = NoChildren
          /\ (/\ start(fault, pads) /\ fault = "none"
              /\ Idle /\ last.op = "add_item" /\ Len(playlist) = 1)
                => /\ last'.res = "Ok"
                   /\ pipeline' # None
                   /\ currently_playing_id' = Some(playlist[1].id)
                   /\ DOMAIN children' = {playlist[1].id}]_vars

\* C14's case: a start has just failed on the empty playlist of a new
\* Streamer, whose listener was spawned and finds no graph.
C14_Witness ==
    /\ last.op = "start" /\ last.res = "FirstItemFailed"
    /\ playlist = <<>> /\ issued = {}
    /\ Idle
    /\ listener.pc = "poll" /\ graph = "none"

\* C15: if start fails because the graph cannot be built, the session never
\* becomes active: the Streamer holds no graph afterwards, nothing of a
\* session exists, and a start that follows is not rejected with
\* AlreadyRunning.
C15_GraphBuildError ==
    [][\A fault \in StartFaults, pads \in AnyPads :
          /\ (start(fault, pads) /\ fault = "graph" /\ pipeline = None)
                => /\ last'.res = "GraphBuildError"
                   /\ pipeline' = None
                   /\ graph' = "none" /\ children' = NoChildren
                   /\ UNCHANGED <<playlist, currently_playing_id, listener>>
          /\ (start(fault, pads) /\ last = Label("start", "GraphBuildError"))
                => last'.res # "AlreadyRunning"]_vars

\* C15's case: a start on a playlist that holds an item has just failed to
\* build the graph; no listener was spawned.
C15_Witness ==
    /\ last = Label("start", "GraphBuildError")
    /\ playlist # <<>>
    /\ pipeline = None /\ graph = "none"
    /\ listener.pc = "none"

\* C16: self-loop: while the playlist holds a single item, every finish of
\* that item's source results in a new source for the same item being
\* attached and made current; the advance (the media engine building and
\* starting the new source without fault) never fails because the previous
\* source of the same item is still attached to the graph.
C16_SelfLoop ==
    [][\A pads \in PadSets :
          (/\ listener_play_next("none", pads)
           /\ pipeline # None
           /\ Len(listener.snap) = 1
           /\ currently_playing_id = Some(listener.snap[1].id))
              => /\ last'.res = "Ok"
                 /\ currently_playing_id' = Some(listener.snap[1].id)
                 /\ children'[listener.snap[1].id] = pads]_vars

\* C17: teardown never disrupts the active source: the source a teardown
\* sets to Null, unlinks from the selectors and removes from the graph is
\* never the source attached for the item that is currently active.
C17_TeardownSparesActive ==
    [][\A id \in Ids, null_ok \in BOOLEAN :
          teardown(id, null_ok) => currently_playing_id # Some(id)]_vars

\* C18: stop terminates the listener loop and joins it before the graph is
\* torn down: when stop has set the graph to Null and returns, the listener
\* is not running and no advance is in progress.
C18_StopJoinsListener ==
    [][(stop(TRUE) /\ pipeline # None) => listener'.pc = "none"]_vars

\* The statements of an advance that operate on the graph.
GraphOps == {"pipeline.add", "call_async", "sync_state_with_parent"}

\* C19: within one switch, the step that makes the new source the
\* selector's active input happens before the teardown of the previous
\* source is scheduled.
C19_ActiveBeforeTeardown ==
    last.res = "Ok"
        => \A i \in 1..Len(last.steps) :
              last.steps[i].op = "call_async"
                  => \E j \in 1..(i - 1) : last.steps[j].op = "active-pad"

\* C20: during an advance no graph operation (adding the new source,
\* scheduling the teardown, synchronizing the new source's state) executes
\* while the advancing thread holds the playlist lock or the current-id
\* lock.
C20_NoGraphOpUnderLock ==
    \A i \in 1..Len(last.steps) :
        last.steps[i].op \in GraphOps => last.steps[i].held = {}

\* C21: at most two sources (one old being drained, one new) are attached
\* to the graph at any time, and whenever no switch is in progress in a
\* running session (no message waits or is being handled, no teardown is
\* pending) exactly one source is attached, that of the current item.
\* Stated of the sessions the media engine serves without fault.
C21_AtMostTwoSources ==
    trail.on
        => /\ Cardinality(DOMAIN children) <= 2
           /\ (/\ pipeline # None
               /\ bus = <<>> /\ listener.pc = "poll" /\ cleanup = {})
                  => DOMAIN children = {currently_playing_id[1]}

\* C22: the teardown of one old source performs its steps in a fixed
\* order: the source is set to the null state first, then the selector input
\* ports whose peer belongs to it are released, then the source is removed
\* from the graph; a failure of one step (set_state) does not prevent the
\* following steps.
C22_TeardownOrder ==
    [][\A id \in Ids, null_ok \in BOOLEAN :
          teardown(id, null_ok)
              => LET steps   == last'.steps
                     null    == FirstStep(steps, "set_state(Null)")
                     video   == FirstStep(steps, "release_pads(video_selector)")
                     audio   == FirstStep(steps, "release_pads(audio_selector)")
                     removal == FirstStep(steps, "pipeline.remove")
                 IN  /\ null = 1
                     /\ null < video /\ null < audio
                     /\ video < removal /\ audio < removal
                     /\ removal = Len(steps)
                     /\ id \notin DOMAIN children'
                     /\ id \notin cleanup']_vars

\* C22's case: in a running session the teardown of the source that
\* finished has just run, its set_state(Null) failed, and only the source of
\* the current item is left in the graph.
C22_Witness ==
    /\ last.op = "teardown" /\ last.res = "NullFailed"
    /\ pipeline # None
    /\ currently_playing_id # None
    /\ DOMAIN children = {currently_playing_id[1]}

\* The statements of a teardown.
TeardownOps ==
    {"set_state(Null)", "release_pads(video_selector)",
     "release_pads(audio_selector)", "pipeline.remove"}

\* C23: the teardown of a finished source is never executed inside the
\* advance and never on the listener thread: the advance runs none of its
\* statements and returns with the finished source still in the graph and
\* its teardown scheduled (once the new source was added); the teardown is a
\* step of its own, scheduled before, that leaves the listener where it is.
C23_TeardownAsync ==
    [][/\ \A fault \in AttachFaults, pads \in AnyPads :
             (/\ listener_play_next(fault, pads)
              /\ listener.old # None
              /\ listener.old[1] \in DOMAIN children)
                 => /\ \A i \in 1..Len(last'.steps) :
                          last'.steps[i].op \notin TeardownOps
                    /\ graph' # "none" => listener.old[1] \in DOMAIN children'
                    /\ last'.res \in {"Ok", "SyncFailed"}
                          => /\ FirstStep(last'.steps, "call_async") # 0
                             /\ listener.old[1] \in cleanup'
       /\ \A id \in Ids, null_ok \in BOOLEAN :
             teardown(id, null_ok)
                 => /\ id \in cleanup
                    /\ UNCHANGED <<listener, currently_playing_id>>]_vars

\* C23's case: an advance of the listener has just attached the next source
\* and returned; the finished source is still in the graph and its teardown
\* is pending.
C23_Witness ==
    /\ last.op = "listener_play_next" /\ last.res = "Ok"
    /\ FirstStep(last.steps, "call_async") # 0
    /\ cleanup # {}
    /\ cleanup \subseteq DOMAIN children
    /\ currently_playing_id # None
    /\ DOMAIN children = cleanup \cup {currently_playing_id[1]}
    /\ currently_playing_id[1] \notin cleanup

\* C24: get_playlist_clone returns a snapshot that equals the playlist as
\* it was entirely before or entirely after each concurrent add_item,
\* remove_item or move_item: it holds every item of the playlist exactly
\* once, the item a concurrent move_item is moving included.
C24_SnapshotAtomic ==
    [][call_get_playlist_clone
          => LET live == ids_of(playlist)
                            \cup (IF moving = None THEN {}
                                  ELSE {moving[1].item.id})
             IN  /\ ids_of(snapshot') = live
                 /\ Len(snapshot') = Cardinality(live)
                 /\ \A i \in 1..Len(snapshot') :
                       \E j \in 1..Len(playlist) : snapshot'[i] = playlist[j]]_vars

\* C24's case: a snapshot was taken, then a move_item took an item out of
\* the Vec and has yet to put it back: the snapshot holds the item, the Vec
\* does not, and no snapshot can be taken now.
C24_Witness ==
    /\ moving # None
    /\ Len(snapshot) = 3
    /\ ids_of(snapshot) = ids_of(playlist) \cup {moving[1].item.id}
    /\ moving[1].item.id \notin ids_of(playlist)
    /\ snapshot[1].id # 1

\* C25: the advance reads the playlist and the current id in one critical
\* section (both locks held) and what it read alone determines the item it
\* attaches and makes current: the successor, in the playlist as read, of
\* the current id, or the first item when there is none.  An add, remove or
\* move made after the read and before the advance returns does not change
\* the choice, and the next advance reads the playlist as it is then.
C25_SnapshotDecides ==
    [][/\ (listener_snapshot /\ playlist # <<>>)
             => /\ listener'.pc = "switch"
                /\ listener'.snap = get_playlist_clone
                /\ UNCHANGED <<playlist, currently_playing_id>>
       /\ \A fault \in AttachFaults, pads \in AnyPads :
             (listener_play_next(fault, pads) /\ last'.res = "Ok")
                 => LET snap == listener.snap
                        cur  == currently_playing_id
                        new  == currently_playing_id'[1]
                    IN  /\ currently_playing_id' # None
                        /\ graph' # "none" => new \in DOMAIN children'
                        /\ IF cur = None \/ cur[1] \notin ids_of(snap)
                           THEN new = snap[1].id
                           ELSE \E i \in 1..Len(snap) :
                                   /\ snap[i].id = cur[1]
                                   /\ new = snap[(i % Len(snap)) + 1].id
                        /\ \E i \in 1..Len(last'.steps) :
                              /\ last'.steps[i] =
                                     Step("next_index", {"playlist", "playing_id"})
                              /\ \A j \in 1..i :
                                     last'.steps[j].op # "ElementFactory::make"]_vars

\* C25's case: an advance has just attached and made current an item that
\* was removed from the playlist after the advance had read it.
C25_Witness ==
    /\ last.op = "listener_play_next" /\ last.res = "Ok"
    /\ currently_playing_id # None
    /\ currently_playing_id[1] \notin ids_of(playlist)
    /\ currently_playing_id[1] \in DOMAIN children
    /\ playlist # <<>>

\* C26: an advance changes the current id only when attaching the chosen
\* item succeeded, and then sets it to that item's id as soon as the switch
\* is initiated (right after the new source was synchronized in the graph,
\* before any of its streams is linked); when the advance fails (empty playlist, attach
\* failure) the current id keeps its previous value.
C26_CurrentIdOnSuccess ==
    [][/\ \A fault \in AttachFaults, pads \in AnyPads :
             listener_play_next(fault, pads)
                 => IF last'.res = "Ok"
                    THEN LET set == FirstStep(last'.steps, "set playing_id") IN
                         /\ currently_playing_id'[1] \in ids_of(listener.snap)
                         /\ graph' # "none"
                               => currently_playing_id'[1] \in DOMAIN children'
                         /\ set > 1
                         /\ last'.steps[set - 1].op = "sync_state_with_parent"
                         /\ \A i \in 1..set : last'.steps[i].op # "pad.link"
                    ELSE /\ UNCHANGED currently_playing_id
                         /\ FirstStep(last'.steps, "set playing_id") = 0
       /\ listener_snapshot => UNCHANGED currently_playing_id
       /\ \A fault \in StartFaults, pads \in AnyPads :
             (start(fault, pads) /\ pipeline = None)
                 => IF last'.res \in {"Ok", "StateChangeFailed"}
                    THEN /\ currently_playing_id'[1] \in ids_of(playlist)
                         /\ FirstStep(last'.steps, "set playing_id")
                                = FirstStep(last'.steps, "sync_state_with_parent") + 1
                    ELSE /\ UNCHANGED currently_playing_id
                         /\ FirstStep(last'.steps, "set playing_id") = 0]_vars

\* C26's case: an advance of the listener has just made the second item
\* current in a running session, and the streams of its source were linked
\* after that.
C26_Witness ==
    /\ last.op = "listener_play_next" /\ last.res = "Ok"
    /\ pipeline # None
    /\ Len(playlist) = 2 /\ currently_playing_id = Some(playlist[2].id)
    /\ FirstStep(last.steps, "pad.link") > FirstStep(last.steps, "set playing_id")

\* C27: the listener loop terminates: it leaves the loop when it receives
\* the pipeline's EOS, and once the Streamer holds no graph (after stop, or
\* after a start that failed once the listener was spawned) the listener
\* eventually ends, unless a new session is started first.
C27_ListenerTerminates ==
    /\ [][listener_eos => listener'.pc = "none"]_vars
    /\ [](pipeline = None => <>(listener.pc = "none" \/ pipeline # None))

\* C27's case: the session was stopped while its listener was polling, and
\* the listener has just found the graph gone and ended.
C27_Witness ==
    /\ last.op = "listener_exit"
    /\ listener.pc = "none"
    /\ pipeline = None /\ graph = "none"
    /\ currently_playing_id = None
    /\ calls = 2

\* C28: an error event from the data plane is logged and the listener
\* keeps running: handling it changes neither the playlist, nor the current
\* id, nor the set of attached sources, nor whether the session is running,
\* and the listener is back at polling the bus, where the messages behind
\* the error still wait.
C28_ErrorLoggedOnly ==
    [][listener_error
          => /\ last'.res = "Logged"
             /\ UNCHANGED <<playlist, NEXT_ID, currently_playing_id, pipeline,
                            graph, children, cleanup>>
             /\ listener'.pc = "poll"
             /\ bus' = Tail(bus)]_vars

\* C28's case: the listener has just handled an error in a running session
\* whose current source is attached.
C28_Witness ==
    /\ last = Label("listener_error", "Logged")
    /\ pipeline # None /\ graph = "playing"
    /\ currently_playing_id # None
    /\ currently_playing_id[1] \in DOMAIN children
    /\ listener.pc = "poll"

\* C29: each attached source triggers at most one advance, however many
\* streams it exposes: in a session followed from its start, the advances
\* made (the one of start and those of the listener) never outnumber the
\* sources that have finished by more than the first.
C29_OneAdvancePerSource ==
    trail.on => Len(trail.seq) <= trail.fin + 1

\* C30: in every reachable state the current id is Some only while a
\* session is running (the Streamer holds a graph); in particular a start
\* that returns an error leaves the current id None.
C30_CurrentOnlyWhileRunning ==
    get_currently_playing_id # None => pipeline # None

\* The playlist operations of the Streamer, and the operations that advance
\* the session or end it.
StoreOps == {"add_item", "remove_item", "move_item"}
AdvanceOrStop == {"start", "listener_play_next", "stop"}

\* C33: add_item, remove_item and move_item change neither the current id
\* nor whether a session is running; remove_item of the item that is
\* playing leaves the current id equal to the removed id, which is then not
\* in the playlist, and a current id that is not in the playlist stays
\* current and stays out of the playlist through every step that is neither
\* an advance nor a stop.
C33_StoreLeavesSession ==
    [][/\ last'.op \in StoreOps
            => /\ get_currently_playing_id' = get_currently_playing_id
               /\ pipeline' = pipeline
               /\ UNCHANGED <<graph, children, cleanup, bus, listener>>
       /\ \A id \in Ids :
             (/\ last'.op = "remove_item"
              /\ get_currently_playing_id = Some(id)
              /\ id \in ids_of(playlist)
              /\ id \notin ids_of(playlist'))
             => (get_currently_playing_id' = Some(id) /\ id \notin ids_of(playlist'))
       /\ \A id \in Ids :
             (/\ get_currently_playing_id = Some(id)
              /\ id \notin ids_of(playlist)
              /\ last'.op \notin AdvanceOrStop)
             => (get_currently_playing_id' = Some(id) /\ id \notin ids_of(playlist'))
      ]_vars

\* C33's case: in a running session the item that is playing has just been
\* removed; it is still the current id and its source is still attached.
C33_Witness ==
    /\ last = Label("remove_item", "Ok")
    /\ pipeline # None /\ graph = "playing"
    /\ get_currently_playing_id # None
    /\ get_currently_playing_id[1] \notin ids_of(playlist)
    /\ get_currently_playing_id[1] \in issued
    /\ get_currently_playing_id[1] \in DOMAIN children

\* C31: every source whose item-finished message the listener has taken
\* from the bus in a running session is eventually removed from the graph,
\* whether the advance that the message triggers succeeds or fails.
C31_FinishedSourceTornDown ==
    \A id \in 1..MaxId :
        [](/\ listener.pc = "handle" /\ listener.msg = id
           /\ pipeline # None
           /\ id \in DOMAIN children
           => <>(id \notin DOMAIN children))

\* Some threads wait for each other: every one of them is blocked on a
\* Mutex that only threads among them hold.
Deadlocked ==
    \E S \in (SUBSET Threads) \ {{}} :
        \A t \in S :
            /\ waits_for(threads, t) # None
            /\ owners(threads, waits_for(threads, t)[1]) \subseteq S

\* C32: no interleaving of the callers' operations, the advances of the
\* listener and of handle_eos and the teardowns reaches a deadlock on the
\* playlist lock and the current-id lock; a Mutex has one holder at most,
\* and a thread that holds both took the playlist lock first and the
\* current-id lock second.
C32_LockOrder ==
    /\ ~Deadlocked
    /\ \A m \in {"playlist", "playing_id"} :
          Cardinality(owners(threads, m)) <= 1
    /\ \A t \in Threads :
          held_by(threads, t) = {"playlist", "playing_id"}
             => threads[t].guards = <<"playlist", "playing_id">>

\* C32's case: the listener is inside switch_source with the current-id
\* guard, the thread of handle_eos holds the playlist guard and waits for
\* the current-id lock, and a caller waits for the playlist lock.
C32_Witness ==
    /\ threads["listener"].guards = <<"playing_id">>
    /\ threads["handle_eos"].guards = <<"playlist">>
    /\ waits_for(threads, "handle_eos") = Some("playing_id")
    /\ threads["caller1"].op = "add_item"
    /\ waits_for(threads, "caller1") = Some("playlist")

====
